---- MODULE Spec2Model ----
(***************************************************************************)
(* Model of src/scripts/setupStorage.ts: the storage provisioner.  One run *)
(* of setupStorage() is a linear pipeline of awaited remote calls and      *)
(* synchronous filesystem calls inside one try/catch whose handler exits   *)
(* the process with code 1.  Every await is modelled as two steps, the     *)
(* issue of the call and the resumption with its outcome.                  *)
(***************************************************************************)
EXTENDS Integers, Sequences, FiniteSets, TLC

\* Bounds of the model
MaxFiles == 3
MaxRuns == 2

\* Program text
BUCKET_NAME == "disc-product-images"
OtherBucket == "avatars"
OldBucketName == "old-product-images"

Policies ==
  << [name |-> <<"Allow", "public", "uploads">>],
     [name |-> <<"Allow", "public", "reads">>],
     [name |-> <<"Allow", "public", "updates">>],
     [name |-> <<"Allow", "public", "deletes">>] >>

LowerChar(c) ==
  CASE c = "A" -> "a" [] c = "B" -> "b" [] c = "C" -> "c" [] c = "E" -> "e"
    [] c = "F" -> "f" [] c = "G" -> "g" [] c = "I" -> "i" [] c = "J" -> "j"
    [] c = "N" -> "n" [] c = "P" -> "p" [] c = "T" -> "t" [] c = "X" -> "x"
    [] c = "Allow" -> "allow"
    [] OTHER -> c

ToLowerCase(s) == [k \in 1..Len(s) |-> LowerChar(s[k])]

RECURSIVE ReplaceSpaces(_)
ReplaceSpaces(ws) ==
  IF Len(ws) = 0 THEN <<>>
  ELSE IF Len(ws) = 1 THEN ws
  ELSE <<Head(ws), "_">> \o ReplaceSpaces(Tail(ws))

PolicyName(p) == ReplaceSpaces(ToLowerCase(p.name))

EndsWith(s, suf) ==
  /\ Len(s) >= Len(suf)
  /\ SubSeq(s, Len(s) - Len(suf) + 1, Len(s)) = suf

ImageExtensions ==
  { <<"j", "p", "g">>, <<"j", "p", "e", "g">>, <<"p", "n", "g">>, <<"g", "i", "f">> }

\* Variant: the extension is matched case-sensitively
IsImageCaseSensitive(file) ==
  \E e \in ImageExtensions : EndsWith(file, <<".">> \o e)

\* line 110
IsImage(file) ==
  \E e \in ImageExtensions : EndsWith(ToLowerCase(file), <<".">> \o e)

ObjectPath(file) == <<"product-images", "/">> \o file

\* Variant: the template names a fixed bucket instead of interpolating
HelperCodeFixed(bucket) ==
  << "import supabase; export getPublicImageUrl = supabase.storage.from",
     OldBucketName,
     "getPublicUrl product-images/imageName" >>

\* lines 136-144
HelperCode(bucket) ==
  << "import supabase; export getPublicImageUrl = supabase.storage.from",
     bucket,
     "getPublicUrl product-images/imageName" >>

Includes(msg, needle) ==
  \E k \in 1..(Len(msg) - Len(needle) + 1) :
     SubSeq(msg, k, k + Len(needle) - 1) = needle

AlreadyExists == <<"already", "exists">>

\* Local images directory: candidate entries, in directory order
Catalog ==
  << <<"a", ".", "p", "n", "g">>,
     <<"b", ".", "t", "x", "t">>,
     <<"c", ".", "J", "P", "G">>,
     <<"d", ".", "j", "p", "e", "g">>,
     <<"p", "n", "g">>,
     <<"e", ".", "G", "i", "f">>,
     <<"f", ".", "p", "n", "g", ".", "t", "x", "t">> >>

Listings ==
  { l \in { SubSeq(Catalog, a, b) : a \in 1..Len(Catalog), b \in 0..Len(Catalog) } :
      Len(l) <= MaxFiles }

LocalContent == "v2"
StaleContent == "v1"

\* Replies of the remote service and of the filesystem
OtherMsg == <<"relation", "exists", "already", "locked">>
ExistsMsg == <<"resource", "already", "exists">>

Ok == [kind |-> "ok", msg |-> <<>>, hasMsg |-> FALSE]
Err(m) == [kind |-> "error", msg |-> m, hasMsg |-> TRUE]
Throw(m) == [kind |-> "throw", msg |-> m, hasMsg |-> TRUE]
ThrowBare == [kind |-> "throw", msg |-> <<>>, hasMsg |-> FALSE]

IsFault(r) == r.kind # "ok" /\ ~(r.hasMsg /\ Includes(r.msg, AlreadyExists))

ListReplies == {Ok, Err(OtherMsg), Throw(OtherMsg)}

CreateReplies(bs, name) ==
  IF name \in bs THEN {Err(ExistsMsg)} ELSE {Ok, Err(OtherMsg), Throw(OtherMsg)}

RlsReplies == {Ok, Err(OtherMsg), Throw(OtherMsg)}

PolicyReplies(ps, name) ==
  (IF name \in ps THEN {Err(ExistsMsg), Throw(ExistsMsg)} ELSE {Ok})
    \cup {Err(OtherMsg), Throw(OtherMsg), ThrowBare}

\* Variant: uploads do not overwrite
UploadOptionsNoUpsert == [upsert |-> FALSE]

\* lines 117-120
UploadOptions == [upsert |-> TRUE]

UploadReplies(objs, path, opts) ==
  (IF (\E o \in objs : o.path = path) /\ ~opts.upsert THEN {Err(ExistsMsg)} ELSE {Ok})
    \cup {Err(OtherMsg), Throw(OtherMsg)}

Put(objs, path, content) ==
  { o \in objs : o.path # path } \cup { [path |-> path, content |-> content] }

FsReplies == {Ok, Throw(OtherMsg)}

NoFile == [exists |-> FALSE, content |-> <<>>]
File(c) == [exists |-> TRUE, content |-> c]

Call(op, arg) == [op |-> op, arg |-> arg]
Line(level, text, arg) == [level |-> level, text |-> text, arg |-> arg]

VARIABLES
  pc,        \* position of setupStorage() in the current run
  run,       \* number of the current run of the script
  buckets,   \* remote: names of the storage buckets
  policies,  \* remote: names of the policies on storage.objects
  rlsOn,     \* remote: row-level security enabled on storage.objects
  objects,   \* remote: objects of the bucket, [path, content]
  files,     \* local: entries of the images directory
  utilsDir,  \* local: the utils directory exists
  helper,    \* local: utils/storageHelper.ts
  listed,    \* data of the listBuckets result
  pi,        \* index of the policy loop
  fi,        \* index of the file loop
  inflight,  \* remote calls issued and not yet returned
  calls,     \* history: the steps of this run, in the order they started
  results,   \* history: the outcome of each step of this run
  console,   \* history: console output of this run
  caught,    \* history: an exception reached the top-level handler
  exitCode,  \* exit code of the process of this run
  faulted,   \* history: some call failed other than with "already exists"
  snap       \* history: remote and local state when the previous run ended

vars ==
  << pc, run, buckets, policies, rlsOn, objects, files, utilsDir, helper, listed,
     pi, fi, inflight, calls, results, console, caught, exitCode, faulted, snap >>

remote == << buckets, policies, rlsOn, objects >>
locals == << files, utilsDir, helper >>
loops == << pi, fi >>

State == [buckets |-> buckets, policies |-> policies, rlsOn |-> rlsOn,
          objects |-> objects, helper |-> helper]

AllPolicyNames == { PolicyName(Policies[k]) : k \in 1..Len(Policies) }

StaleObjects ==
  { [path |-> ObjectPath(Catalog[k]), content |-> StaleContent] : k \in 1..Len(Catalog) }

Init ==
  /\ pc = "list"
  /\ run = 1
  /\ \/ /\ buckets = {OtherBucket}
        /\ policies = {}
        /\ rlsOn = FALSE
        /\ objects = {}
        /\ utilsDir = FALSE
        /\ helper = NoFile
     \/ /\ buckets = {OtherBucket, BUCKET_NAME}
        /\ policies = {PolicyName(Policies[1]), PolicyName(Policies[3])}
        /\ rlsOn = TRUE
        /\ objects = {}
        /\ utilsDir = TRUE
        /\ helper = NoFile
     \/ /\ buckets = {OtherBucket, BUCKET_NAME}
        /\ policies = AllPolicyNames
        /\ rlsOn = TRUE
        /\ objects = StaleObjects
        /\ utilsDir = TRUE
        /\ helper = File(HelperCode(OldBucketName))
  /\ files \in Listings
  /\ listed = {}
  /\ pi = 1
  /\ fi = 1
  /\ inflight = {}
  /\ calls = <<>>
  /\ results = <<>>
  /\ console = <<>>
  /\ caught = FALSE
  /\ exitCode = 0
  /\ faulted = FALSE
  /\ snap = State

\* Variant: the call is not awaited
AwaitForgotten(label, following) == following

\* await: setupStorage() is suspended at label until the call settles; only
\* then does it go on to the statement that follows
Await(label, following) == label

\* An awaited remote call is issued
Issue(c, label, following) ==
  /\ inflight' = inflight \cup {c}
  /\ calls' = Append(calls, c)
  /\ pc' = Await(label, following)

\* The awaited call settles with reply r
Settle(c, r) ==
  /\ c \in inflight
  /\ inflight' = inflight \ {c}
  /\ results' = Append(results, r)
  /\ faulted' = (faulted \/ IsFault(r))

\* line 20-21
ListBuckets ==
  /\ pc = "list"
  /\ Issue(Call("listBuckets", <<>>), "await_list", "create")
  /\ UNCHANGED << run, remote, locals, listed, loops, results, console, caught,
                  exitCode, faulted, snap >>

\* Variant: the existence check never finds the bucket
BucketExistsNever(data) == \E bucket \in data : bucket = OldBucketName

\* line 27
BucketExists(data) == \E bucket \in data : bucket = BUCKET_NAME

\* lines 23-29: listError is fatal
AfterList(r, data) ==
  IF r.kind = "ok" THEN (IF BucketExists(data) THEN "rls" ELSE "create") ELSE "catch"

\* Variant: createError is not checked
AfterCreateUnchecked(r) == IF r.kind = "throw" THEN "catch" ELSE "rls"

\* lines 39-41: createError is fatal
AfterCreate(r) == IF r.kind = "ok" THEN "rls" ELSE "catch"

\* Variant: the error of enable_rls is checked and fatal
AfterRlsChecked(r) == IF r.kind = "ok" THEN "policy" ELSE "catch"

\* lines 49-52: the result of enable_rls is discarded
AfterRls(r) == IF r.kind = "throw" THEN "catch" ELSE "policy"

\* Variant: uploadError is fatal
AfterUploadFatal(r) == IF r.kind = "ok" THEN "upload" ELSE "catch"

\* lines 122-126: uploadError is logged and the loop goes on
AfterUpload(r) == IF r.kind = "throw" THEN "catch" ELSE "upload"

\* Variant: a failed write leaves the file truncated
WriteFileSyncTorn(file, data, r) == IF r.kind = "ok" THEN File(data) ELSE File(<<>>)

\* lines 146-150: the file holds data once the write has succeeded
WriteFileSync(file, data, r) == IF r.kind = "ok" THEN File(data) ELSE file

\* lines 20-29
ListBucketsReturn ==
  /\ pc = "await_list"
  /\ \E r \in ListReplies :
       /\ Settle(Call("listBuckets", <<>>), r)
       /\ listed' = IF r.kind = "ok" THEN buckets ELSE listed
       /\ pc' = AfterList(r, buckets)
  /\ UNCHANGED << run, remote, locals, loops, calls, console, caught, exitCode, snap >>

\* lines 30-37
CreateBucket ==
  /\ pc = "create"
  /\ Issue(Call("createBucket", <<>>), "await_create", "rls")
  /\ UNCHANGED << run, remote, locals, listed, loops, results, console, caught,
                  exitCode, faulted, snap >>

\* lines 31-45
CreateBucketReturn ==
  /\ pc = "await_create"
  /\ \E r \in CreateReplies(buckets, BUCKET_NAME) :
       /\ Settle(Call("createBucket", <<>>), r)
       /\ buckets' = IF r.kind = "ok" THEN buckets \cup {BUCKET_NAME} ELSE buckets
       /\ pc' = AfterCreate(r)
  /\ UNCHANGED << run, policies, rlsOn, objects, locals, listed, loops, calls,
                  console, caught, exitCode, snap >>

\* lines 47-52
EnableRls ==
  /\ pc = "rls"
  /\ Issue(Call("enable_rls", <<>>), "await_rls", "policy")
  /\ UNCHANGED << run, remote, locals, listed, loops, results, console, caught,
                  exitCode, faulted, snap >>

\* lines 49-52: the result is discarded; a rejection leaves the try block
EnableRlsReturn ==
  /\ pc = "await_rls"
  /\ \E r \in RlsReplies :
       /\ Settle(Call("enable_rls", <<>>), r)
       /\ rlsOn' = (rlsOn \/ r.kind = "ok")
       /\ pc' = AfterRls(r)
  /\ pi' = 1
  /\ UNCHANGED << run, buckets, policies, objects, locals, listed, fi, calls,
                  console, caught, exitCode, snap >>

\* lines 90-97
CreatePolicy ==
  /\ pc = "policy"
  /\ Issue(Call("create_storage_policy", PolicyName(Policies[pi])), "await_policy", "readdir")
  /\ UNCHANGED << run, remote, locals, listed, loops, results, console, caught,
                  exitCode, faulted, snap >>

AfterPolicy == IF pi < Len(Policies) THEN "policy" ELSE "readdir"

\* lines 98-104: the handler of the per-policy try block
PolicyCatch(p, error) ==
  IF ~error.hasMsg
    THEN /\ pc' = "catch"
         /\ console' = console
    ELSE /\ pc' = AfterPolicy
         /\ console' = Append(console,
              IF ~Includes(error.msg, AlreadyExists)
                THEN Line("error", "Error creating policy", p.name)
                ELSE Line("log", "Policy already exists", p.name))

\* lines 93-105
CreatePolicyReturn ==
  /\ pc = "await_policy"
  /\ \E r \in PolicyReplies(policies, PolicyName(Policies[pi])) :
       /\ Settle(Call("create_storage_policy", PolicyName(Policies[pi])), r)
       /\ policies' = IF r.kind = "ok"
                        THEN policies \cup {PolicyName(Policies[pi])}
                        ELSE policies
       /\ IF r.kind = "throw"
            THEN PolicyCatch(Policies[pi], r)
            ELSE /\ pc' = AfterPolicy
                 /\ console' = console
  /\ pi' = IF pc' = "policy" THEN pi + 1 ELSE pi
  /\ UNCHANGED << run, buckets, rlsOn, objects, locals, listed, fi, calls,
                  caught, exitCode, snap >>

\* lines 106-107
ReadDir ==
  /\ pc = "readdir"
  /\ calls' = Append(calls, Call("readdirSync", <<>>))
  /\ \E r \in FsReplies :
       /\ results' = Append(results, r)
       /\ faulted' = (faulted \/ IsFault(r))
       /\ pc' = IF r.kind = "ok" THEN "upload" ELSE "catch"
  /\ fi' = 1
  /\ UNCHANGED << run, remote, locals, listed, pi, inflight, console, caught,
                  exitCode, snap >>

\* lines 109-110, 127-128: an entry that is no image is passed over
SkipFile ==
  /\ pc = "upload"
  /\ fi <= Len(files)
  /\ ~IsImage(files[fi])
  /\ fi' = fi + 1
  /\ UNCHANGED << pc, run, remote, locals, listed, pi, inflight, calls, results,
                  console, caught, exitCode, faulted, snap >>

\* lines 110-120: the file is read, then its upload is issued
Upload ==
  /\ pc = "upload"
  /\ fi <= Len(files)
  /\ IsImage(files[fi])
  /\ \E r \in FsReplies :
       IF r.kind = "ok"
         THEN /\ Issue(Call("upload", files[fi]), "await_upload", "upload")
              /\ UNCHANGED << results, faulted >>
         ELSE /\ calls' = Append(calls, Call("readFileSync", files[fi]))
              /\ results' = Append(results, r)
              /\ faulted' = TRUE
              /\ pc' = "catch"
              /\ inflight' = inflight
  /\ UNCHANGED << run, remote, locals, listed, loops, console, caught, exitCode, snap >>

\* lines 115-128
UploadReturn ==
  /\ pc = "await_upload"
  /\ \E r \in UploadReplies(objects, ObjectPath(files[fi]), UploadOptions) :
       /\ Settle(Call("upload", files[fi]), r)
       /\ objects' = IF r.kind = "ok"
                       THEN Put(objects, ObjectPath(files[fi]), LocalContent)
                       ELSE objects
       /\ pc' = AfterUpload(r)
       /\ console' = IF r.kind = "error"
                       THEN Append(console, Line("error", "Error uploading", files[fi]))
                       ELSE console
  /\ fi' = IF pc' = "upload" THEN fi + 1 ELSE fi
  /\ UNCHANGED << run, buckets, policies, rlsOn, locals, listed, pi, calls,
                  caught, exitCode, snap >>

\* lines 130-152
WriteHelper ==
  /\ pc = "upload"
  /\ fi > Len(files)
  /\ calls' = Append(calls, Call("writeFileSync", <<>>))
  /\ \E mk \in (IF utilsDir THEN {Ok} ELSE FsReplies), wr \in FsReplies :
       LET r == IF mk.kind = "ok" THEN wr ELSE mk IN
       /\ utilsDir' = (utilsDir \/ mk.kind = "ok")
       /\ helper' = IF mk.kind = "ok"
                      THEN WriteFileSync(helper, HelperCode(BUCKET_NAME), wr)
                      ELSE helper
       /\ results' = Append(results, r)
       /\ faulted' = (faulted \/ IsFault(r))
       /\ pc' = IF r.kind = "ok" THEN "done" ELSE "catch"
       /\ console' = IF r.kind = "ok"
                       THEN Append(console, Line("log", "Storage setup completed successfully!", <<>>))
                       ELSE console
  /\ UNCHANGED << run, remote, files, listed, loops, inflight, caught, exitCode, snap >>

\* lines 153-156
SetupFailed ==
  /\ pc = "catch"
  /\ console' = Append(console, Line("error", "Setup failed:", <<>>))
  /\ caught' = TRUE
  /\ exitCode' = 1
  /\ pc' = "exited"
  /\ UNCHANGED << run, remote, locals, listed, loops, inflight, calls, results,
                  faulted, snap >>

\* line 159: the script is run again after a run in which nothing failed
Rerun ==
  /\ pc \in {"done", "exited"}
  /\ run < MaxRuns
  /\ ~faulted
  /\ run' = run + 1
  /\ snap' = State
  /\ pc' = "list"
  /\ listed' = {}
  /\ pi' = 1
  /\ fi' = 1
  /\ calls' = <<>>
  /\ results' = <<>>
  /\ console' = <<>>
  /\ caught' = FALSE
  /\ exitCode' = 0
  /\ UNCHANGED << remote, locals, inflight, faulted >>

Next ==
  \/ ListBuckets
  \/ ListBucketsReturn
  \/ CreateBucket
  \/ CreateBucketReturn
  \/ EnableRls
  \/ EnableRlsReturn
  \/ CreatePolicy
  \/ CreatePolicyReturn
  \/ ReadDir
  \/ SkipFile
  \/ Upload
  \/ UploadReturn
  \/ WriteHelper
  \/ SetupFailed
  \/ Rerun

Spec == Init /\ [][Next]_vars

\* ------------------------------------------------------------------------
\* Queries on the history of the current run

Ended == pc \in {"done", "exited"}
Aborted == pc \in {"catch", "exited"}

At(op) == { k \in 1..Len(calls) : calls[k].op = op }
Called(op) == At(op) # {}
Settled(k) == k <= Len(results)
Failed(op) == \E k \in At(op) : Settled(k) /\ results[k].kind # "ok"
Threw(op) == \E k \in At(op) : Settled(k) /\ results[k].kind = "throw"
Returned(op, kind) == \E k \in At(op) : Settled(k) /\ results[k].kind = kind

ArgsOf(op) ==
  LET sel == SelectSeq(calls, LAMBDA c : c.op = op)
  IN [k \in 1..Len(sel) |-> sel[k].arg]

Errors == SelectSeq(console, LAMBDA l : l.level = "error")
Logged(text, arg) == \E k \in 1..Len(console) : console[k].text = text /\ console[k].arg = arg
Surfaced(text) == \E k \in 1..Len(Errors) : Errors[k].text = text

IsPrefix(s, t) == Len(s) <= Len(t) /\ s = SubSeq(t, 1, Len(s))

\* The entries of the catalog whose name ends in .jpg, .jpeg, .png or .gif in
\* any letter case, written out
ImageEntries ==
  { <<"a", ".", "p", "n", "g">>, <<"c", ".", "J", "P", "G">>,
    <<"d", ".", "j", "p", "e", "g">>, <<"e", ".", "G", "i", "f">> }

ImagesOf(l) == SelectSeq(l, LAMBDA f : f \in ImageEntries)

\* The four policy names in the order of the source, written out
PolicyNamesInOrder ==
  << <<"allow", "_", "public", "_", "uploads">>,
     <<"allow", "_", "public", "_", "reads">>,
     <<"allow", "_", "public", "_", "updates">>,
     <<"allow", "_", "public", "_", "deletes">> >>

LaterSteps == {"enable_rls", "create_storage_policy", "readdirSync", "readFileSync",
               "upload", "writeFileSync"}

\* ------------------------------------------------------------------------
\* C1: when listBuckets fails, or the bucket is absent and createBucket fails,
\* the run goes to the top-level handler and exits with code 1, and in that
\* run enable_rls, create_storage_policy, upload and the helper write are
\* never called and the helper file is untouched.
C1_ContainerFailureAborts ==
  (Failed("listBuckets") \/ Failed("createBucket")) =>
     /\ Aborted
     /\ pc = "exited" => exitCode = 1
     /\ \A op \in LaterSteps : ~Called(op)
     /\ helper = snap.helper

C1_Witness ==
  /\ pc = "exited"
  /\ exitCode = 1
  /\ Returned("createBucket", "error")

\* C2: createBucket is called at most once in a run, and exactly when the
\* listing succeeded and did not contain BUCKET_NAME; when the listing
\* contains it no createBucket call is made.
C2_CreateOnlyIfAbsent ==
  LET listedOk == Returned("listBuckets", "ok")
  IN /\ Cardinality(At("createBucket")) <= 1
     /\ Called("createBucket") => listedOk /\ BUCKET_NAME \notin listed
     /\ (listedOk /\ BUCKET_NAME \in listed) => ~Called("createBucket")
     /\ (listedOk /\ BUCKET_NAME \notin listed /\ pc # "create") =>
          Cardinality(At("createBucket")) = 1

C2_Witness ==
  /\ pc = "done"
  /\ BUCKET_NAME \in listed
  /\ ~Called("createBucket")

\* C3 (as claimed): a run that reaches the policy step attempts all four
\* create_storage_policy calls in order whatever their outcomes, surfaces no
\* "already exists" failure, and logs every other failure, returned or
\* thrown, with or without a message.
C3_AllPoliciesWhateverOutcome ==
  (Ended /\ Called("create_storage_policy")) =>
     /\ ArgsOf("create_storage_policy") = PolicyNamesInOrder
     /\ \A k \in At("create_storage_policy") :
          LET p == CHOOSE q \in 1..Len(Policies) : PolicyName(Policies[q]) = calls[k].arg
          IN IF IsFault(results[k])
               THEN Logged("Error creating policy", Policies[p].name)
               ELSE ~Logged("Error creating policy", Policies[p].name)

\* C4 (as claimed): a run that reaches the upload step attempts the upload of
\* every image entry exactly once, whatever failure, returned or thrown, the
\* other files met.
C4_AllImagesWhateverOutcome ==
  (Ended /\ Returned("readdirSync", "ok")) => ArgsOf("upload") = ImagesOf(files)

\* C4 (amended): uploads are attempted only for image entries, in directory
\* order and once each; a returned upload error is logged and does not stop
\* the loop, so the loop is left early only by an exception (reading a file
\* or uploading it), which aborts the run.
C4_UploadsIndependentUnlessThrown ==
  /\ IsPrefix(ArgsOf("upload"), ImagesOf(files))
  /\ pc = "done" => ArgsOf("upload") = ImagesOf(files)
  /\ \A k \in At("upload") :
       (Settled(k) /\ results[k].kind = "error") =>
          /\ Logged("Error uploading", calls[k].arg)
          /\ ~(Aborted /\ k = Len(calls))
  /\ (Aborted /\ Returned("readdirSync", "ok")) => results[Len(results)].kind = "throw"
  /\ (Ended /\ Returned("readdirSync", "ok") /\ ~Threw("upload") /\ ~Called("readFileSync"))
        => ArgsOf("upload") = ImagesOf(files)

C4_Witness ==
  /\ pc = "done"
  /\ files = SubSeq(Catalog, 1, 3)
  /\ ArgsOf("upload") = << <<"a", ".", "p", "n", "g">>, <<"c", ".", "J", "P", "G">> >>
  /\ \E k \in At("upload") :
       calls[k].arg = <<"a", ".", "p", "n", "g">> /\ results[k].kind = "error"

\* C5: a run exits with code 1 exactly when listBuckets or createBucket
\* failed or an exception reached the top-level handler; every other run,
\* whatever errors its policy calls and uploads returned, writes the helper,
\* logs the completion message and exits with code 0.
C5_ExitCode ==
  Ended =>
     /\ (exitCode = 1) <=> (Failed("listBuckets") \/ Failed("createBucket") \/ caught)
     /\ exitCode # 1 =>
          /\ pc = "done"
          /\ exitCode = 0
          /\ Returned("writeFileSync", "ok")
          /\ helper = File(HelperCode(BUCKET_NAME))
          /\ Logged("Storage setup completed successfully!", <<>>)
     /\ (~Failed("listBuckets") /\ ~Failed("createBucket")
           /\ \A k \in 1..Len(results) : results[k].kind # "throw") => exitCode = 0

C5_Witness ==
  /\ pc = "done"
  /\ exitCode = 0
  /\ Returned("create_storage_policy", "error")
  /\ Returned("upload", "error")

\* C6: a run that follows a run in which nothing failed, and in which nothing
\* fails other than with "already exists", ends with the buckets, policies,
\* objects and helper file the first run left, makes no createBucket call,
\* surfaces no error, and leaves one object per image with the local content.
C6_RerunSafe ==
  (run >= 2 /\ Ended /\ ~faulted) =>
     /\ pc = "done"
     /\ State = snap
     /\ ~Called("createBucket")
     /\ Errors = <<>>
     /\ \A o1, o2 \in objects : o1.path = o2.path => o1 = o2
     /\ \A k \in 1..Len(files) :
          files[k] \in ImageEntries =>
            [path |-> ObjectPath(files[k]), content |-> LocalContent] \in objects

C6_Witness ==
  /\ run = 2
  /\ pc = "done"
  /\ ~faulted
  /\ Called("upload")
  /\ \E k \in At("create_storage_policy") :
       results[k].kind = "throw" /\ Includes(results[k].msg, AlreadyExists)

\* C7 (as claimed): after every run the helper file holds the generated code
\* naming BUCKET_NAME.
C7_HelperAlwaysRewritten ==
  Ended => /\ helper.exists
           /\ \E k \in 1..Len(helper.content) : helper.content[k] = BUCKET_NAME

\* C7 (amended): a run that completes has written the helper whatever was
\* there before, and the file then names BUCKET_NAME and no other bucket; a
\* run that aborts leaves the helper file it found.
C7_HelperRewrittenOnCompletion ==
  Ended =>
     IF exitCode = 0
       THEN /\ Called("writeFileSync")
            /\ helper.exists
            /\ \E k \in 1..Len(helper.content) : helper.content[k] = BUCKET_NAME
            /\ \A k \in 1..Len(helper.content) : helper.content[k] # OldBucketName
       ELSE helper = snap.helper

C7_Witness ==
  /\ pc = "done"
  /\ snap.helper = File(HelperCode(OldBucketName))
  /\ helper = File(HelperCode(BUCKET_NAME))

Rank(op) ==
  CASE op = "listBuckets" -> 1
    [] op = "createBucket" -> 2
    [] op = "enable_rls" -> 3
    [] op = "create_storage_policy" -> 4
    [] op = "readdirSync" -> 5
    [] op \in {"readFileSync", "upload"} -> 6
    [] op = "writeFileSync" -> 7

\* C8: the steps of a run start in the order listBuckets, createBucket (only
\* when the bucket is absent), enable_rls, the four policies in their order,
\* readdirSync, the uploads in directory order, the helper write; each step
\* has returned before the next starts and at most one remote call is
\* outstanding.
C8_Sequential ==
  /\ \A j, k \in 1..Len(calls) :
       j < k => /\ Rank(calls[j].op) <= Rank(calls[k].op)
                /\ Rank(calls[j].op) = Rank(calls[k].op) =>
                     calls[j].op \in {"create_storage_policy", "upload"}
  /\ calls # <<>> => calls[1].op = "listBuckets"
  /\ Called("createBucket") => BUCKET_NAME \notin listed
  /\ Called("create_storage_policy") => Called("enable_rls")
  /\ IsPrefix(ArgsOf("create_storage_policy"), PolicyNamesInOrder)
  /\ Called("readdirSync") => ArgsOf("create_storage_policy") = PolicyNamesInOrder
  /\ Called("upload") => Called("readdirSync")
  /\ IsPrefix(ArgsOf("upload"), ImagesOf(files))
  /\ Called("writeFileSync") => ArgsOf("upload") = ImagesOf(files)
  /\ Cardinality(inflight) <= 1
  /\ inflight # {} => inflight = {calls[Len(calls)]}
  /\ Len(results) = Len(calls) - Cardinality(inflight)

C8_Witness ==
  /\ pc = "done"
  /\ Called("createBucket")
  /\ Len(ArgsOf("upload")) >= 2
  /\ inflight = {}

\* C9 (as claimed): however enable_rls fails, by a returned error or by a
\* thrown exception, the run is not aborted there and goes on to the policy
\* calls.
C9_RlsFailureNeverAborts ==
  (Ended /\ Failed("enable_rls")) => Called("create_storage_policy")

\* C9 (amended): an error returned by enable_rls is neither checked nor
\* logged and the first create_storage_policy call is issued next; an
\* exception thrown by enable_rls goes to the top-level handler and no
\* policy call is made.
C9_RlsErrorUnchecked ==
  /\ (Returned("enable_rls", "error") /\ pc # "policy") =>
        \E k \in At("enable_rls") :
             /\ k < Len(calls)
             /\ calls[k + 1] = Call("create_storage_policy", PolicyNamesInOrder[1])
  /\ Returned("enable_rls", "throw") =>
        /\ Aborted
        /\ ~Called("create_storage_policy")
        /\ pc = "exited" => exitCode = 1

C9_Witness ==
  /\ pc = "done"
  /\ Returned("enable_rls", "error")
  /\ ArgsOf("create_storage_policy") = PolicyNamesInOrder

====
